---- MODULE Spec2Model ----
(***************************************************************************)
(* Model of plastic.py: the on_message moderation handler, the classifier  *)
(* helper is_offensive_content and the /moderation slash command, run as   *)
(* coroutines on one asyncio event loop.                                   *)
(*                                                                         *)
(* Text is a sequence of one-character strings, so that lower(), strip(),  *)
(* split() and startswith() are computed rather than assumed.              *)
(***************************************************************************)
EXTENDS Naturals, Sequences, FiniteSets

\* ------------------------------------------------------------------ bounds
\* on_message handlers that may be suspended at an await at the same time
MaxTasks == 1
\* longest message content drawn in the token-matching specification
MaxLen == 3

\* ------------------------------------------------------------- text helpers
UpperChars == <<"A","B","C","D","E","F","G","H","I","J","K","L","M",
                "N","O","P","Q","R","S","T","U","V","W","X","Y","Z">>
LowerChars == <<"a","b","c","d","e","f","g","h","i","j","k","l","m",
                "n","o","p","q","r","s","t","u","v","w","x","y","z">>
\* the whitespace characters that occur in the texts drawn below
Whitespace == {" ", "\n", "\t"}

\* str.lower() on one character: the upper-case letters map to their lower
\* case, every other character to itself
LowerTable ==
    [c \in {UpperChars[i] : i \in DOMAIN UpperChars} |->
        LowerChars[CHOOSE i \in DOMAIN UpperChars : UpperChars[i] = c]]
LowerChar(c) == IF c \in DOMAIN LowerTable THEN LowerTable[c] ELSE c

\* str.lower()
Lower(s) == [i \in DOMAIN s |-> LowerChar(s[i])]

\* str.strip(): drop leading and trailing whitespace
RECURSIVE LStrip(_)
LStrip(s) == IF s # <<>> /\ Head(s) \in Whitespace THEN LStrip(Tail(s)) ELSE s
RECURSIVE RStrip(_)
RStrip(s) ==
    IF s # <<>> /\ s[Len(s)] \in Whitespace
    THEN RStrip(SubSeq(s, 1, Len(s) - 1))
    ELSE s
Strip(s) == RStrip(LStrip(s))

\* str.startswith(p)
StartsWith(s, p) == Len(s) >= Len(p) /\ SubSeq(s, 1, Len(p)) = p

\* str.split() with no argument: the maximal runs of non-whitespace
RECURSIVE SplitFrom(_, _, _)
SplitFrom(s, i, cur) ==
    IF i > Len(s)
    THEN (IF cur = <<>> THEN <<>> ELSE <<cur>>)
    ELSE IF s[i] \in Whitespace
         THEN (IF cur = <<>> THEN <<>> ELSE <<cur>>) \o SplitFrom(s, i + 1, <<>>)
         ELSE SplitFrom(s, i + 1, Append(cur, s[i]))
Split(s) == SplitFrom(s, 1, <<>>)

\* x in list
InList(x, l) == \E i \in DOMAIN l : l[i] = x

\* ------------------------------------------------------------ the universe
Guilds == {"g1", "g2"}
NoGuild == "none"
\* message.guild, by channel: "dm" is a private channel, which has no guild
GuildOf(ch) ==
    CASE ch = "c1" -> "g1"
      [] ch = "c2" -> "g1"
      [] ch = "c3" -> "g2"
      [] OTHER -> NoGuild
Absent == "absent"


Yes == <<"y","e","s">>
Hate == <<"h","a","t","e">>
Enable == <<"e","n","a","b","l","e">>
Disable == <<"d","i","s","a","b","l","e">>
Status == <<"s","t","a","t","u","s">>

\* an incoming message event: channel, author and content as the gateway gives them
Message(ch, author, content) ==
    [guild |-> GuildOf(ch), channel |-> ch, author |-> author, content |-> content]
NoMessage == Message("dm", [id |-> "nobody", bot |-> FALSE], <<>>)

\* the frame of one on_message call: its argument, where it is suspended, its
\* locals, and the external calls it has issued so far, in order, each named by
\* its call site (message.delete() at line 117 is "delete_offensive", at line
\* 142 "delete_flagged")
NewTask(message) ==
    [message |-> message, pc |-> "start", enabled |-> FALSE,
     response |-> Absent, log |-> <<>>]
NoTask == [NewTask(NoMessage) EXCEPT !.pc = "none"]

VARIABLES
    blacklist,               \* bot.blacklist
    flagged_words,           \* bot.flagged_words: guild id -> rule
    auto_moderation_config,  \* auto_moderation_config: guild id -> bool
    tasks,                   \* suspended on_message calls, oldest first
    ev,                      \* the step the event loop ran last
    lastToggle               \* history: per guild, the last enable/disable given

vars == <<blacklist, flagged_words, auto_moderation_config, tasks, ev, lastToggle>>

\* dict.get(key, default)
DictGet(d, k, default) == IF k \in DOMAIN d THEN d[k] ELSE default

\* d[key] = value
DictSet(d, k, v) == [x \in DOMAIN d \cup {k} |-> IF x = k THEN v ELSE d[x]]

\* ------------------------------------------------------ is_offensive_content
\* a variant of lines 86-88 that treats a failed call as offensive
is_offensive_content_FailClosed(response) ==
    IF response.raised
    THEN TRUE
    ELSE StartsWith(Lower(Strip(response.text)), Yes)

\* response: what model.generate_content / response.text gave, a text or an
\* exception; the except clause turns any exception into False
is_offensive_content(response) ==
    IF response.raised
    THEN FALSE
    ELSE StartsWith(Lower(Strip(response.text)), Yes)

\* ---------------------------------------------------------------- on_message
\* a variant of line 107 that forgets the blacklist
FastReject_NoBlacklist(message, bl) ==
    message.guild = NoGuild \/ message.author.bot

\* line 107: the early return
FastReject(message, bl) ==
    \/ message.guild = NoGuild
    \/ message.author.bot
    \/ message.author.id \in bl

\* line 111
is_moderation_enabled(message, amc) == DictGet(amc, message.guild, FALSE)

\* line 134
is_global(config) == config.sync_global

\* a variant of line 135 that does not compare the channel
is_correct_channel_AnyChannel(config, message) == ~is_global(config)

\* line 135
is_correct_channel(config, message) ==
    ~is_global(config) /\ config.channel = message.channel

\* a variant of line 137 that tests the word against the lowered content
\* itself (substring) instead of its tokens
flagged_words_in_message_Substring(config, message) ==
    SelectSeq(config.words,
              LAMBDA word : \E k \in 1..(Len(message.content) + 1) :
                  /\ k + Len(word) - 1 <= Len(message.content)
                  /\ SubSeq(Lower(message.content), k, k + Len(word) - 1) = word)

\* line 137: the configured words that are tokens of the lowered content
flagged_words_in_message(config, message) ==
    SelectSeq(config.words, LAMBDA word : InList(word, Split(Lower(message.content))))

\* lines 132-138: whether the guild's rule fires for the message
RuleFires(fw, message) ==
    /\ message.guild \in DOMAIN fw
    /\ is_global(fw[message.guild]) \/ is_correct_channel(fw[message.guild], message)
    /\ flagged_words_in_message(fw[message.guild], message) # <<>>

\* line 139: config.get("message", "A flagged word was detected.")
custom_message(config) ==
    IF config.message = Absent THEN "A flagged word was detected." ELSE config.message

\* lines 131-150, up to the first await
FlaggedStage(task, fw) ==
    IF RuleFires(fw, task.message)
    THEN [task EXCEPT !.pc = "delete_flagged",
                      !.response = custom_message(fw[task.message.guild]),
                      !.log = Append(@, "delete_flagged")]
    ELSE [task EXCEPT !.pc = "process_commands",
                      !.log = Append(@, "process_commands")]

\* a variant of lines 114-138 that checks the flagged words before the
\* classifier's answer
AutoModStage_WordsFirst(task, offensive, fw) ==
    IF RuleFires(fw, task.message)
    THEN FlaggedStage(task, fw)
    ELSE IF offensive
         THEN [task EXCEPT !.pc = "delete_offensive",
                           !.log = Append(@, "delete_offensive")]
         ELSE FlaggedStage(task, fw)

\* lines 115-117 and 131: what follows the classifier's answer
AutoModStage(task, offensive, fw) ==
    IF offensive
    THEN [task EXCEPT !.pc = "delete_offensive", !.log = Append(@, "delete_offensive")]
    ELSE FlaggedStage(task, fw)

\* the notice each try block sends, and the one its Forbidden handler sends
SendOf(pc) ==
    IF pc \in {"delete_offensive", "send_offensive"}
    THEN "send_offensive" ELSE "send_flagged"
FallbackOf(pc) ==
    IF pc \in {"delete_offensive", "send_offensive"}
    THEN "fallback_offensive" ELSE "fallback_flagged"

Outcomes == {"ok", "Forbidden", "NotFound", "HTTPException"}

\* a variant of lines 122-126 that drops the Forbidden handler's notice
AfterDelete_ForbiddenSilent(task, outcome) ==
    CASE outcome = "ok" ->
            [task EXCEPT !.pc = SendOf(task.pc), !.log = Append(@, SendOf(task.pc))]
      [] outcome \in {"Forbidden", "NotFound"} -> [task EXCEPT !.pc = "returned"]
      [] OTHER -> [task EXCEPT !.pc = "raised"]

\* lines 117-128 and 142-147: await message.delete() has finished with outcome
AfterDelete(task, outcome) ==
    CASE outcome = "ok" ->
            [task EXCEPT !.pc = SendOf(task.pc), !.log = Append(@, SendOf(task.pc))]
      [] outcome = "Forbidden" ->
            [task EXCEPT !.pc = FallbackOf(task.pc),
                         !.log = Append(@, FallbackOf(task.pc))]
      [] outcome = "NotFound" -> [task EXCEPT !.pc = "returned"]
      [] OTHER -> [task EXCEPT !.pc = "raised"]

\* lines 118-128 and 143-147: await message.channel.send(...) in the try block
AfterSend(task, outcome) ==
    CASE outcome = "ok" -> [task EXCEPT !.pc = "returned"]
      [] outcome = "Forbidden" ->
            [task EXCEPT !.pc = FallbackOf(task.pc),
                         !.log = Append(@, FallbackOf(task.pc))]
      [] outcome = "NotFound" -> [task EXCEPT !.pc = "returned"]
      [] OTHER -> [task EXCEPT !.pc = "raised"]

\* lines 124 and 145: the send inside the except clause, which nothing guards
AfterFallback(task, outcome) ==
    IF outcome = "ok"
    THEN [task EXCEPT !.pc = "returned"]
    ELSE [task EXCEPT !.pc = "raised"]

\* ---------------------------------------------------------------- moderation
\* a variant of lines 157-165 without line 157's action.lower()
ModerationUpdate_CaseSensitive(amc, guild_id, action) ==
    CASE action = Enable -> DictSet(amc, guild_id, TRUE)
      [] action = Disable -> DictSet(amc, guild_id, FALSE)
      [] OTHER -> amc

\* lines 157-165: the config after the command; only enable and disable write
ModerationUpdate(amc, guild_id, action) ==
    CASE Lower(action) = Enable -> DictSet(amc, guild_id, TRUE)
      [] Lower(action) = Disable -> DictSet(amc, guild_id, FALSE)
      [] OTHER -> amc

\* lines 161-171: which reply interaction.response.send_message carries
ModerationReply(amc, guild_id, action) ==
    CASE Lower(action) = Enable -> "enabled"
      [] Lower(action) = Disable -> "disabled"
      [] Lower(action) = Status ->
            (IF DictGet(amc, guild_id, FALSE) THEN "status_enabled" ELSE "status_disabled")
      [] OTHER -> "invalid"

\* history: which toggle, if any, a command text asks for
ToggleOf(action) ==
    CASE Lower(action) = Enable -> "enable"
      [] Lower(action) = Disable -> "disable"
      [] OTHER -> "none"

\* ------------------------------------------------------------ the event loop
\* (a handler step's result is bound with \E task \in {...}: the one value the
\* step computes)
\* line 83 calls model.generate_content synchronously inside the coroutine:
\* between the call and its return the loop's only thread is inside it
Blocked == \E i \in DOMAIN tasks : tasks[i].pc = "classify"

\* the step the loop ran last: which handler step, on what outcome or input,
\* the position in tasks of the handler if it is suspended again (0 if it ended),
\* how the step ended, the calls the handler has issued, and the event dispatched
Event(kind, outcome, text, i, task, message) ==
    [kind |-> kind, outcome |-> outcome, text |-> text,
     i |-> IF task.pc \in {"returned", "raised", "none"} THEN 0 ELSE i,
     ended |-> IF task.pc \in {"returned", "raised", "none"} THEN task.pc ELSE "suspended",
     log |-> task.log, message |-> message]

Finished(task) == task.pc \in {"returned", "raised"}

\* the task list once the task at position i has run to its next await or its end
Resume(i, task) ==
    IF Finished(task)
    THEN SubSeq(tasks, 1, i - 1) \o SubSeq(tasks, i + 1, Len(tasks))
    ELSE [tasks EXCEPT ![i] = task]

\* lines 106-115: the gateway dispatches a message; the handler runs to its
\* early return, into the classifier call, or to its first await
Dispatch(message, bl, amc, fw) ==
    IF FastReject(message, bl)
    THEN [NewTask(message) EXCEPT !.pc = "returned"]
    ELSE IF is_moderation_enabled(message, amc)
         THEN [NewTask(message) EXCEPT !.enabled = TRUE, !.pc = "classify",
                                       !.log = Append(@, "classify")]
         ELSE FlaggedStage(NewTask(message), fw)

OnMessage(message, cap) ==
    /\ ~Blocked
    /\ FastReject(message, blacklist) \/ Len(tasks) < cap
    /\ \E task \in {Dispatch(message, blacklist, auto_moderation_config, flagged_words)} :
       /\ tasks' = IF Finished(task) THEN tasks ELSE Append(tasks, task)
       /\ ev' = Event("on_message", "dispatched", <<>>, Len(tasks) + 1, task, message)
    /\ UNCHANGED <<blacklist, flagged_words, auto_moderation_config, lastToggle>>

\* lines 83-88 and 115: generate_content returns or raises, and the handler
\* runs on to its next await
ClassifyReturn(i, response) ==
    /\ tasks[i].pc = "classify"
    /\ \E task \in {AutoModStage(tasks[i], is_offensive_content(response), flagged_words)} :
       /\ tasks' = Resume(i, task)
       /\ ev' = Event("classify_return", IF response.raised THEN "error" ELSE "text",
                      response.text, i, task, NoMessage)
    /\ UNCHANGED <<blacklist, flagged_words, auto_moderation_config, lastToggle>>

\* lines 117 and 142: the delete request completes
DeleteDone(i, outcome) ==
    /\ ~Blocked
    /\ tasks[i].pc \in {"delete_offensive", "delete_flagged"}
    /\ \E task \in {AfterDelete(tasks[i], outcome)} :
       /\ tasks' = Resume(i, task)
       /\ ev' = Event("delete_done", outcome, <<>>, i, task, NoMessage)
    /\ UNCHANGED <<blacklist, flagged_words, auto_moderation_config, lastToggle>>

\* lines 118 and 143: the warning send completes
SendDone(i, outcome) ==
    /\ ~Blocked
    /\ tasks[i].pc \in {"send_offensive", "send_flagged"}
    /\ \E task \in {AfterSend(tasks[i], outcome)} :
       /\ tasks' = Resume(i, task)
       /\ ev' = Event("send_done", outcome, <<>>, i, task, NoMessage)
    /\ UNCHANGED <<blacklist, flagged_words, auto_moderation_config, lastToggle>>

\* lines 124 and 145: the send in the Forbidden handler completes
FallbackDone(i, outcome) ==
    /\ ~Blocked
    /\ tasks[i].pc \in {"fallback_offensive", "fallback_flagged"}
    /\ \E task \in {AfterFallback(tasks[i], outcome)} :
       /\ tasks' = Resume(i, task)
       /\ ev' = Event("fallback_done", outcome, <<>>, i, task, NoMessage)
    /\ UNCHANGED <<blacklist, flagged_words, auto_moderation_config, lastToggle>>

\* line 150: bot.process_commands returns
CommandsDone(i) ==
    /\ ~Blocked
    /\ tasks[i].pc = "process_commands"
    /\ \E task \in {[tasks[i] EXCEPT !.pc = "returned"]} :
       /\ tasks' = Resume(i, task)
       /\ ev' = Event("commands_done", "ok", <<>>, i, task, NoMessage)
    /\ UNCHANGED <<blacklist, flagged_words, auto_moderation_config, lastToggle>>

\* lines 155-171: the slash command, given in a guild, which runs to its reply
\* without suspending; saved: whether save_auto_moderation_config wrote the
\* file or raised.
\* lastToggle records the command as the user gave it.
Moderation(guild, action, saved) ==
    /\ ~Blocked
    /\ auto_moderation_config' = ModerationUpdate(auto_moderation_config, guild, action)
    /\ ev' = Event("moderation",
                   IF Lower(action) \in {Enable, Disable} /\ ~saved
                   THEN "save_failed"
                   ELSE ModerationReply(auto_moderation_config, guild, action),
                   <<>>, 0,
                   IF Lower(action) \in {Enable, Disable} /\ ~saved
                   THEN [NoTask EXCEPT !.pc = "raised"]
                   ELSE [NoTask EXCEPT !.pc = "returned"],
                   NoMessage)
    /\ lastToggle' = IF ToggleOf(action) = "none"
                     THEN lastToggle
                     ELSE [lastToggle EXCEPT ![guild] = ToggleOf(action)]
    /\ UNCHANGED <<blacklist, flagged_words, tasks>>

\* ------------------------------------------------------------- the inputs
Human1 == [id |-> "u1", bot |-> FALSE]
Human2 == [id |-> "u2", bot |-> FALSE]
Bot1 == [id |-> "b1", bot |-> TRUE]
Authors == {Human1, Human2, Bot1}

\* "I HATE you", "hateful"
IHateYou == <<"I"," ","H","A","T","E"," ","y","o","u">>
Hateful == <<"h","a","t","e","f","u","l">>
Messages == {Message(ch, a, IHateYou) : ch \in {"c1", "c3", "dm"}, a \in Authors}

Rule(global, channel, words, message) ==
    [sync_global |-> global, channel |-> channel, words |-> words, message |-> message]
EmptyDict == [g \in {} |-> FALSE]
FlaggedWordsFiles ==
    {EmptyDict} \cup
    {[g \in {"g1"} |-> r] : r \in {Rule(TRUE, Absent, <<Hate>>, "no hate here"),
                                   Rule(FALSE, "c1", <<Hate>>, Absent)}}

\* what the classifier may answer: an exception, or a text
Responses ==
    {[raised |-> TRUE, text |-> <<>>]} \cup
    {[raised |-> FALSE, text |-> t] :
        t \in {Yes, <<" ","Y","E","S","\n">>, <<"Y","e","s",".">>,
               <<"n","o">>, <<"N","o"," ","y","e","s">>}}

Actions == {<<"E","n","a","b","l","e">>, Disable, Status, <<"h","e","l","p">>}

\* ------------------------------------------------------- the specification
\* auto_moderation.json as line 65 may load it: missing (the default {}), or
\* what save_auto_moderation_config wrote after earlier toggles
ConfigFiles == UNION {[D -> BOOLEAN] : D \in SUBSET Guilds}

\* blacklist.json as loaded at line 34 lists user u2; the history starts as
\* the toggles that wrote the loaded auto_moderation.json
Init ==
    /\ blacklist = {"u2"}
    /\ flagged_words \in FlaggedWordsFiles
    /\ auto_moderation_config \in ConfigFiles
    /\ tasks = <<>>
    /\ ev = Event("init", "none", <<>>, 0, NoTask, NoMessage)
    /\ lastToggle = [g \in Guilds |->
                        IF g \notin DOMAIN auto_moderation_config THEN "none"
                        ELSE IF auto_moderation_config[g] THEN "enable" ELSE "disable"]

Next ==
    \/ \E message \in Messages : OnMessage(message, MaxTasks)
    \/ \E i \in DOMAIN tasks, response \in Responses : ClassifyReturn(i, response)
    \/ \E i \in DOMAIN tasks, outcome \in Outcomes : DeleteDone(i, outcome)
    \/ \E i \in DOMAIN tasks, outcome \in Outcomes : SendDone(i, outcome)
    \/ \E i \in DOMAIN tasks, outcome \in Outcomes : FallbackDone(i, outcome)
    \/ \E i \in DOMAIN tasks : CommandsDone(i)
    \/ \E guild \in Guilds, action \in Actions, saved \in BOOLEAN :
          Moderation(guild, action, saved)

Spec == Init /\ [][Next]_vars

\* the same program with room for one more suspended handler
NextConc ==
    \/ \E message \in Messages : OnMessage(message, MaxTasks + 1)
    \/ \E i \in DOMAIN tasks, response \in Responses : ClassifyReturn(i, response)
    \/ \E i \in DOMAIN tasks, outcome \in Outcomes : DeleteDone(i, outcome)
    \/ \E i \in DOMAIN tasks, outcome \in Outcomes : SendDone(i, outcome)
    \/ \E i \in DOMAIN tasks, outcome \in Outcomes : FallbackDone(i, outcome)
    \/ \E i \in DOMAIN tasks : CommandsDone(i)
    \/ \E guild \in Guilds, action \in Actions, saved \in BOOLEAN :
          Moderation(guild, action, saved)

SpecConc == Init /\ [][NextConc]_vars

\* ------------------------------------- the flagged-word rule on its own
\* every content of at most MaxLen characters over a small alphabet, and the
\* two contents of the documented examples
Alphabet == {"a", "A", "b", " "}
RECURSIVE Strings(_)
Strings(n) ==
    IF n = 0
    THEN {<<>>}
    ELSE Strings(n - 1) \cup {Append(s, c) : s \in Strings(n - 1), c \in Alphabet}
MatchContents == Strings(MaxLen) \cup {IHateYou, Hateful}
MatchMessages == {Message(ch, Human1, c) : ch \in {"c1", "c2"}, c \in MatchContents}
WordLists ==
    {<<>>, <<Hate>>, << <<"a">> >>, << <<"A">> >>, << <<"a","b">> >>,
     << <<"b">>, <<"a","b">> >>, << <<"a"," ","b">> >>}
MatchRules ==
    {Rule(g, ch, w, m) : g \in BOOLEAN, ch \in {"c1", "c2", Absent},
                         w \in WordLists, m \in {Absent, "no hate here"}}

InitMatch ==
    /\ blacklist = {"u2"}
    /\ flagged_words \in {EmptyDict} \cup {[g \in {"g1"} |-> r] : r \in MatchRules}
    /\ auto_moderation_config = EmptyDict
    /\ tasks = <<>>
    /\ ev = Event("init", "none", <<>>, 0, NoTask, NoMessage)
    /\ lastToggle = [g \in Guilds |-> "none"]

NextMatch ==
    \/ \E message \in MatchMessages : OnMessage(message, 1)
    \/ \E i \in DOMAIN tasks, outcome \in Outcomes : DeleteDone(i, outcome)
    \/ \E i \in DOMAIN tasks, outcome \in Outcomes : SendDone(i, outcome)
    \/ \E i \in DOMAIN tasks, outcome \in Outcomes : FallbackDone(i, outcome)
    \/ \E i \in DOMAIN tasks : CommandsDone(i)

SpecMatch == InitMatch /\ [][NextMatch]_vars

\* ---------------------------------------------------------- the properties
\* logs a state shows: of every suspended handler, and of the handler that
\* took the last step
Logs == {tasks[i].log : i \in DOMAIN tasks} \cup {ev.log}

Count(log, entries) == Cardinality({k \in DOMAIN log : log[k] \in entries})

Deletes == {"delete_offensive", "delete_flagged"}
Sends == {"send_offensive", "send_flagged"}
Fallbacks == {"fallback_offensive", "fallback_flagged"}
FlaggedCalls == {"delete_flagged", "send_flagged", "fallback_flagged"}
OffensiveCalls == {"delete_offensive", "send_offensive", "fallback_offensive"}

\* the early-return condition, read off the message and the blacklist
FromBotNoGuildOrBlacklisted(message) ==
    message.author.bot \/ message.guild = NoGuild \/ message.author.id \in blacklist

\* C1: a message from a bot, without a guild, or from a blacklisted author makes
\* on_message return at once, having issued no call at all (no classification,
\* no delete, no send, no command processing), whatever the guild's flag and
\* flagged-word rule are.
C1_RejectedMessageTakesNoAction ==
    (ev.kind = "on_message" /\ FromBotNoGuildOrBlacklisted(ev.message))
        => (ev.ended = "returned" /\ ev.log = <<>> /\ ev.i = 0)

\* a blacklisted human's message matching the guild's global rule, in a guild
\* with auto-moderation enabled, was dispatched
C1_Witness ==
    /\ ev.kind = "on_message"
    /\ ev.message.author.id \in blacklist /\ ~ev.message.author.bot
    /\ ev.message.guild = "g1"
    /\ DictGet(auto_moderation_config, "g1", FALSE)
    /\ "g1" \in DOMAIN flagged_words /\ flagged_words["g1"].sync_global

\* the classifier's text is an affirmative answer: after any leading
\* whitespace it begins with the letters y, e, s in either case
SaysYes(text) ==
    \E k \in 1..Len(text) :
        /\ \A j \in 1..(k - 1) : text[j] \in Whitespace
        /\ k + 2 <= Len(text)
        /\ text[k] \in {"y", "Y"} /\ text[k + 1] \in {"e", "E"} /\ text[k + 2] \in {"s", "S"}

\* C2: when auto-moderation is enabled and the classifier answers offensive,
\* the handler attempts the delete of the offensive-content branch and nothing
\* else; a handler on that branch issues only the delete, then the fixed notice
\* or its fallback, never a flagged-word call, and never computes the custom
\* message, whatever the guild's flagged-word rule is.
C2_OffensiveShortCircuitsFlaggedWords ==
    /\ (ev.kind = "classify_return" /\ ev.outcome = "text" /\ SaysYes(ev.text))
           => /\ ev.ended = "suspended"
              /\ ev.log = <<"classify", "delete_offensive">>
              /\ tasks[ev.i].pc = "delete_offensive"
              /\ tasks[ev.i].response = Absent
    /\ \A log \in Logs :
           Count(log, OffensiveCalls) > 0
               => /\ Count(log, FlaggedCalls \cup {"process_commands"}) = 0
                  /\ log[1] = "classify" /\ log[2] = "delete_offensive"
                  /\ Len(log) >= 3 => log[3] \in {"send_offensive", "fallback_offensive"}
    /\ \A i \in DOMAIN tasks :
           tasks[i].pc \in OffensiveCalls => tasks[i].response = Absent

\* the classifier answered offensive for a message that the guild's global
\* flagged-word rule matches
C2_Witness ==
    /\ ev.kind = "classify_return" /\ ev.outcome = "text" /\ SaysYes(ev.text)
    /\ ev.i > 0
    /\ RuleFires(flagged_words, tasks[ev.i].message)
    /\ flagged_words[tasks[ev.i].message.guild].sync_global

\* a classifier answer that is not offensive
NotOffensive == [raised |-> FALSE, text |-> <<"n", "o">>]

\* C3: when the classifier call raises, the handler stands exactly where it
\* would stand had the classifier answered not offensive: it goes on to the
\* flagged-word check, issues no offensive-content call, does not end with the
\* exception, and no handler issues the classifier call twice.
C3_ClassifierFailureIsNotOffensive ==
    /\ (ev.kind = "classify_return" /\ ev.outcome = "error")
           => /\ ev.ended = "suspended"
              /\ tasks[ev.i] =
                     AutoModStage([NewTask(tasks[ev.i].message) EXCEPT
                                       !.enabled = TRUE, !.pc = "classify",
                                       !.log = <<"classify">>],
                                  is_offensive_content(NotOffensive), flagged_words)
              /\ Count(ev.log, OffensiveCalls) = 0
              /\ ev.log[2] \in {"delete_flagged", "process_commands"}
    /\ \A log \in Logs : Count(log, {"classify"}) <= 1

\* the classifier call raised and the flagged-word rule then fired
C3_Witness ==
    /\ ev.kind = "classify_return" /\ ev.outcome = "error"
    /\ ev.log = <<"classify", "delete_flagged">>

\* C6: a delete refused with Forbidden is followed by exactly one attempt to
\* post the fallback notice, and the handler ends normally once that notice is
\* posted; a delete that fails with NotFound ends the handler normally with no
\* send attempted. No handler attempts a send before its delete, and none
\* attempts the fallback twice.
C6_ForbiddenNoticeNotFoundSilent ==
    /\ (ev.kind = "delete_done" /\ ev.outcome = "Forbidden")
           => /\ ev.ended = "suspended"
              /\ Count(ev.log, Fallbacks) = 1 /\ Count(ev.log, Sends) = 0
              /\ ev.log[Len(ev.log)] \in Fallbacks
              /\ tasks[ev.i].pc = ev.log[Len(ev.log)]
    /\ (ev.kind = "delete_done" /\ ev.outcome = "NotFound")
           => /\ ev.ended = "returned"
              /\ Count(ev.log, Sends \cup Fallbacks) = 0
    /\ (ev.kind = "fallback_done" /\ ev.outcome = "ok") => ev.ended = "returned"
    /\ \A log \in Logs :
           /\ Count(log, Fallbacks) <= 1
           /\ Count(log, Deletes) <= 1
           /\ \A k \in DOMAIN log :
                  log[k] \in Sends \cup Fallbacks => \E j \in 1..(k - 1) : log[j] \in Deletes

\* the delete of a message that matched the flagged-word rule was refused
C6_Witness ==
    /\ ev.kind = "delete_done" /\ ev.outcome = "Forbidden"
    /\ ev.log = <<"delete_flagged", "fallback_flagged">>

\* C7: no step of on_message ends with an exception escaping the handler.
C7_NoExceptionEscapesOnMessage ==
    ev.kind \in {"on_message", "classify_return", "delete_done", "send_done",
                 "fallback_done", "commands_done"}
        => ev.ended # "raised"

\* the handlers of events unrelated to the message being classified
UnrelatedEvent ==
    \/ \E guild \in Guilds, action \in Actions, saved \in BOOLEAN :
          Moderation(guild, action, saved)
    \/ \E message \in Messages :
          /\ \A i \in DOMAIN tasks :
                 tasks[i].pc = "classify" => tasks[i].message.channel # message.channel
          /\ OnMessage(message, MaxTasks + 1)

\* C8: while a classifier call is outstanding, the handler of some unrelated
\* event (the moderation command, a message in another channel) can start.
C8_LoopNotStalledDuringClassification == Blocked => ENABLED UnrelatedEvent

\* C9: of two suspended handlers for messages in the same channel, the later
\* one has not attempted its delete while the earlier one, having attempted
\* its own, has not yet finished.
C9_PerChannelOrder ==
    \A i, j \in DOMAIN tasks :
        (/\ i < j
         /\ tasks[i].message.channel = tasks[j].message.channel
         /\ Count(tasks[j].log, Deletes) > 0)
            => Count(tasks[i].log, Deletes) = 0

\* C10: each guild's flag is on exactly when the last enable/disable given for
\* that guild was an enable (off when none was given), and only guilds that
\* were toggled have an entry; a handler that passes the early return reads
\* the flag of its guild, calls the classifier exactly when it read the flag
\* as on, and a handler that read it as off issues no offensive-content call.
C10_FlagFollowsLastToggle ==
    /\ \A g \in Guilds :
           /\ DictGet(auto_moderation_config, g, FALSE) = (lastToggle[g] = "enable")
           /\ (g \in DOMAIN auto_moderation_config) = (lastToggle[g] # "none")
    /\ \A i \in DOMAIN tasks :
           /\ tasks[i].enabled = (Count(tasks[i].log, {"classify"}) = 1)
           /\ ~tasks[i].enabled => Count(tasks[i].log, OffensiveCalls \cup {"classify"}) = 0
    /\ (ev.kind = "on_message" /\ ~FromBotNoGuildOrBlacklisted(ev.message))
           => /\ ev.ended = "suspended"
              /\ tasks[ev.i].enabled =
                     DictGet(auto_moderation_config, ev.message.guild, FALSE)
              /\ (ev.log = <<"classify">>) = tasks[ev.i].enabled

\* g1 was enabled and then disabled, g2 enabled; a handler for a g1 message
\* that read the flag as off is suspended, and a status command just ran
C10_Witness ==
    /\ lastToggle = [g \in Guilds |-> IF g = "g1" THEN "disable" ELSE "enable"]
    /\ ev.kind = "moderation" /\ ev.outcome = "status_enabled"
    /\ tasks # <<>> /\ tasks[1].message.guild = "g1" /\ ~tasks[1].enabled

\* t is a whitespace-separated token of s: a non-empty run of s with no
\* whitespace in it, with whitespace or an end of s on either side
IsToken(s, t) ==
    /\ t # <<>>
    /\ \A k \in DOMAIN t : t[k] \notin Whitespace
    /\ \E i \in 1..Len(s) :
           /\ i + Len(t) - 1 <= Len(s)
           /\ SubSeq(s, i, i + Len(t) - 1) = t
           /\ i = 1 \/ s[i - 1] \in Whitespace
           /\ i + Len(t) - 1 = Len(s) \/ s[i + Len(t)] \in Whitespace

HasFlaggedToken(config, message) ==
    \E k \in DOMAIN config.words : IsToken(Lower(message.content), config.words[k])

\* the rule is global, or channel-scoped to the message's channel
Applicable(config, message) ==
    config.sync_global \/ (~config.sync_global /\ config.channel = message.channel)

\* C4: for a rule that applies to the message, the rule fires (the handler
\* attempts the flagged-word delete) exactly when some whitespace-separated
\* token of the lowercased content equals one of the rule's words; "hate" does
\* not fire on "hateful" and fires on "I HATE you".
C4_TokenMatchExactCaseInsensitive ==
    (/\ ev.kind = "on_message"
     /\ ev.message.guild \in DOMAIN flagged_words
     /\ Applicable(flagged_words[ev.message.guild], ev.message))
        => /\ (ev.log = <<"delete_flagged">>)
                  = HasFlaggedToken(flagged_words[ev.message.guild], ev.message)
           /\ (ev.log # <<"delete_flagged">>) = (ev.log = <<"process_commands">>)
           /\ (flagged_words[ev.message.guild].words = <<Hate>>
                   /\ ev.message.content = Hateful) => ev.log = <<"process_commands">>
           /\ (flagged_words[ev.message.guild].words = <<Hate>>
                   /\ ev.message.content = IHateYou) => ev.log = <<"delete_flagged">>

\* "I HATE you" met the word "hate" and the rule fired
C4_Witness ==
    /\ ev.kind = "on_message" /\ ev.message.content = IHateYou
    /\ ev.message.guild \in DOMAIN flagged_words
    /\ flagged_words[ev.message.guild].words = <<Hate>>
    /\ ev.log = <<"delete_flagged">>

\* C5: for a message with a token among the rule's words, the rule fires
\* exactly when it is global or is channel-scoped to the message's channel; a
\* guild without a rule never fires.
C5_RuleScope ==
    /\ (/\ ev.kind = "on_message"
        /\ ev.message.guild \in DOMAIN flagged_words
        /\ HasFlaggedToken(flagged_words[ev.message.guild], ev.message))
           => (ev.log = <<"delete_flagged">>)
                  = Applicable(flagged_words[ev.message.guild], ev.message)
    /\ (ev.kind = "on_message" /\ ev.message.guild \notin DOMAIN flagged_words)
           => ev.log # <<"delete_flagged">>

\* a rule scoped to channel c1 met a matching message in channel c2 and did
\* not fire
C5_Witness ==
    /\ ev.kind = "on_message" /\ ev.message.channel = "c2"
    /\ ev.message.guild \in DOMAIN flagged_words
    /\ ~flagged_words[ev.message.guild].sync_global
    /\ flagged_words[ev.message.guild].channel = "c1"
    /\ HasFlaggedToken(flagged_words[ev.message.guild], ev.message)
    /\ ev.log = <<"process_commands">>
====
